---- MODULE Spec2Model ----
(***************************************************************************)
(* stream-download: the download-to-seekable-reader bridge.                *)
(*                                                                         *)
(* Source::download (src/src/source.rs) is the downloader task; it shares  *)
(* the range set, the write head, the requested position, two flag+condvar *)
(* pairs, the content length and a bounded seek channel with SourceHandle. *)
(* The reader (Read + Seek over the handle) lives in the crate's lib.rs,   *)
(* which is not among the source files; it is modelled from section 4.4 of *)
(* the specification and drives the SourceHandle methods of source.rs.     *)
(*                                                                         *)
(* The downloader is split into one step per access to shared state (an    *)
(* atomic, the range-set lock, a flag's mutex, the backing file), so that  *)
(* the reader thread can observe every intermediate state.                 *)
(***************************************************************************)
EXTENDS Integers, Sequences, FiniteSets, TLC

\* ---------------------------------------------------------------- bounds
\* Longest origin resource, in bytes.
MaxLen == 2
\* Longest chunk the stream yields at once.
MaxChunk == 2
\* Largest prefetch threshold (PREFETCH_BYTES, 256 KiB in the source), scaled
\* down; the threshold is at least one byte.
MaxPrefetch == 2
\* Capacity of the BufWriter's buffer (std's default is 8 KiB), scaled down.
BufCap == 2
\* Capacity of the seek channel (mpsc::channel(32)), scaled down.
SeekChannelCap == 1
\* Seeks the reader performs in one run.
MaxSeeks == 2
\* Longest buffer the consumer hands to read().
MaxBuf == 1
\* Width of the machine integers (u64 / i64), scaled down.
IntBits == 5

\* Length of the longer resource of SpecLong: one byte more than MaxLen.
LongLen == MaxLen + 1

\* ------------------------------------------------------------ integers
TwoTo(n) == 2 ^ n

\* `x as i64` for an unsigned x: the two's-complement reading of its bits.
AsI64(x) == IF x >= TwoTo(IntBits - 1) THEN x - TwoTo(IntBits) ELSE x

\* `x as u64` for a signed x.
AsU64(x) == IF x < 0 THEN x + TwoTo(IntBits) ELSE x

\* AtomicU64::fetch_add wraps around.
WrapAdd(a, b) == (a + b) % TwoTo(IntBits)

Min(a, b) == IF a <= b THEN a ELSE b

\* ------------------------------------------------------------- options
\* Option<u64>
None == [some |-> FALSE, val |-> 0]

Some(n) == [some |-> TRUE, val |-> n]

\* ------------------------------------------------------- origin resource
\* The byte of the origin resource at offset p (0-based). Every offset has a
\* byte of its own, and 0 is kept for a hole of the backing file.
OriginByte(p) == p + 1

\* The c bytes of the origin starting at offset off.
OriginBytes(off, c) == [i \in 1..c |-> OriginByte(off + i - 1)]

\* Offsets the model's files and range sets range over.
Offsets == 0..(LongLen - 1)

\* ------------------------------------------------------------ range set
\* rangemap::RangeSet<u64> keeps disjoint, maximally coalesced half-open
\* intervals, so it is determined by the set of points it covers; a stored
\* interval is a maximal run of covered points.

\* RangeSet::insert(lo..hi): covers [lo, hi), coalescing with its neighbours.
RangeInsert(S, lo, hi) == S \cup {p \in Offsets : lo <= p /\ p < hi}

\* RangeSet::get(&p): the stored interval [start, end) containing p, if any.
RangeGet(S, p) ==
    IF p \notin S THEN [some |-> FALSE, start |-> 0, end |-> 0]
    ELSE [some  |-> TRUE,
          start |-> CHOOSE a \in 0..p :
                        /\ \A q \in a..p : q \in S
                        /\ (a = 0 \/ (a - 1) \notin S),
          end   |-> CHOOSE b \in (p + 1)..LongLen :
                        /\ \A q \in p..(b - 1) : q \in S
                        /\ b \notin S]

\* Range<u64>::contains(&x) on a half-open interval.
RangeContains(r, x) == r.start <= x /\ x < r.end

\* The stored intervals, as <<lo, hi>> pairs.
Intervals(S) == {<<RangeGet(S, p).start, RangeGet(S, p).end>> : p \in S}

\* ------------------------------------------------------------ BufWriter
\* The backing file as the operating system holds it: byte per offset, 0 where
\* nothing was written. Its length is one past the last written offset.
EmptyFile == [p \in Offsets |-> 0]

FileLen(f) == IF \E p \in Offsets : f[p] # 0
              THEN 1 + CHOOSE p \in Offsets : f[p] # 0 /\ \A q \in Offsets : f[q] # 0 => q <= p
              ELSE 0

\* File::write_all(bytes) at offset off.
WriteAt(f, off, bytes) ==
    [p \in Offsets |-> IF off <= p /\ p < off + Len(bytes) THEN bytes[p - off + 1] ELSE f[p]]

\* BufWriter::flush: the buffered bytes reach the file at the file cursor.
\* A writer is [buf, cur, file]: the buffer, the file's write cursor, the file.
BufFlush(w) ==
    [buf |-> <<>>, cur |-> w.cur + Len(w.buf), file |-> WriteAt(w.file, w.cur, w.buf)]

\* BufWriter::write_all: bytes stay in the buffer while they fit; a write that
\* does not fit flushes the buffer first, and a write at least as long as the
\* buffer's capacity goes to the file directly.
BufWriteAll(w, bytes) ==
    IF Len(bytes) < BufCap - Len(w.buf)
    THEN [w EXCEPT !.buf = w.buf \o bytes]
    ELSE LET w1 == IF Len(bytes) > BufCap - Len(w.buf) THEN BufFlush(w) ELSE w
         IN  IF Len(bytes) >= BufCap
             THEN [w1 EXCEPT !.cur = w1.cur + Len(bytes),
                             !.file = WriteAt(w1.file, w1.cur, bytes)]
             ELSE [w1 EXCEPT !.buf = w1.buf \o bytes]

\* BufWriter::seek: flushes the buffer, then moves the file cursor.
BufSeek(w, pos) == [BufFlush(w) EXCEPT !.cur = pos]

\* ------------------------------------------------------------- state
VARIABLES
    \* the origin and the session's settings
    len,                      \* length of the origin resource B
    prefetch_bytes,           \* PREFETCH_BYTES
    reported,                 \* what stream.content_length() answers
    seek_capacity,            \* capacity of the seek channel
    seek_budget,              \* seeks the consumer performs in the run
    \* the stream
    spos,                     \* offset of the next byte the stream yields
    \* Source (the downloader task)
    dpc,                      \* where download() stands
    panic_cause,              \* why the task panicked, "none" while it has not
    initial_buffer,           \* local initial_buffer
    chunk_len,                \* local chunk_len
    old_position,             \* local position (fetch_add's result)
    requested,                \* local requested
    writer,                   \* BufWriter<File>: [buf, cur]
    file,                     \* the backing file as the reader's view sees it
    \* shared between Source and SourceHandle
    downloaded,               \* RangeSet<u64>, as the set of covered offsets
    position,                 \* AtomicU64: the write head
    requested_position,       \* AtomicI64, -1: nobody waits
    position_reached,         \* the Mutex<bool> of position_reached
    content_length_retrieved, \* the Mutex<bool> of content_length_retrieved
    content_length,           \* AtomicI64
    seek_chan,                \* mpsc channel of seek offsets: Seq of [pos, id]
    \* the reader
    rpc,                      \* where the reader thread stands
    cursor,                   \* the read cursor
    rbuf,                     \* len(buf) of the read() in progress, 0 outside one
    rk,                       \* the byte count k the read() in progress settled on
    delivered,                \* bytes read() returned since the last seek
    read_from,                \* the cursor at the last seek (0 at the start)
    reof,                     \* the last read() returned 0
    nseeks,                   \* seeks performed so far
    cl_result,                \* what content_length() returns, None outside its return
    \* history
    fresh_seeks,              \* ids of the reader's seeks to an offset of B in no downloaded range
    stream_seeks,             \* the stream.seek calls made: the ids of their requests
    seek_pos,                 \* offset of the last stream.seek call while the head is
                              \* still there, -1 otherwise
    stream_ended,             \* stream.next() has returned None to the downloader
    cl_writes,                \* writes of the content-length atomic so far
    dropped,                  \* the last seek, until the read after it returns, when its
                              \* send found the channel full:
                              \* [pos, parked], parked once the reader waits for pos
                              \* with the stream not yet at its end
    progress,                 \* of the wait in progress: "late" when it was posted with the
                              \* position-reached flag already set, "reached" once a chunk advance brought
                              \* the head to its request, "notified" once that chunk notified
    stale_read                \* since the last seek a read() found fewer than k bytes in the file

config_vars == <<len, prefetch_bytes, reported, seek_capacity, seek_budget>>

downloader_vars == <<dpc, panic_cause, initial_buffer, chunk_len, old_position, requested>>

file_vars == <<writer, file>>

shared_vars == <<downloaded, position, requested_position, position_reached,
                 content_length_retrieved, content_length, seek_chan>>

reader_vars == <<rpc, cursor, rbuf, rk, delivered, read_from, reof, nseeks, cl_result>>

history_vars == <<fresh_seeks, stream_seeks, seek_pos, stream_ended, cl_writes, dropped,
                  progress, stale_read>>

vars == <<config_vars, spos, downloader_vars, file_vars, shared_vars, reader_vars, history_vars>>

\* The BufWriter with the file it writes.
TheWriter == [buf |-> writer.buf, cur |-> writer.cur, file |-> file]

SetWriter(w) ==
    /\ writer' = [buf |-> w.buf, cur |-> w.cur]
    /\ file' = w.file

\* The task is over (returned or panicked): self, and with it seek_rx, is dropped.
Terminated == dpc \in {"done", "panicked"}

\* Condvar::notify_all on position_reached's condvar: a parked reader is woken
\* and re-evaluates wait_while's predicate.
NotifyPositionReached(r) == IF r = "waiting" THEN "woken" ELSE r

\* Condvar::notify_all on content_length_retrieved's condvar.
NotifyContentLength(r) == IF r = "cl_waiting" THEN "cl_woken" ELSE r

\* No seek of the reader is recorded as dropped.
NoDrop == [pos |-> -1, parked |-> FALSE]

\* ----------------------------------------------------------- Init
\* Source::new, the handle cloned from it, a reader at offset 0.
InitRun ==
    /\ spos = 0
    /\ dpc = "start"
    /\ panic_cause = "none"
    /\ initial_buffer = 0
    /\ chunk_len = 0
    /\ old_position = 0
    /\ requested = -1
    /\ writer = [buf |-> <<>>, cur |-> 0]
    /\ file = EmptyFile
    /\ downloaded = {}
    /\ position = 0
    /\ requested_position = -1
    /\ position_reached = FALSE
    /\ content_length_retrieved = FALSE
    /\ content_length = 0
    /\ seek_chan = <<>>
    /\ rpc = "idle"
    /\ cursor = 0
    /\ rbuf = 0
    /\ rk = 0
    /\ delivered = <<>>
    /\ read_from = 0
    /\ reof = FALSE
    /\ nseeks = 0
    /\ cl_result = None
    /\ fresh_seeks = {}
    /\ stream_seeks = <<>>
    /\ seek_pos = -1
    /\ stream_ended = FALSE
    /\ cl_writes = 0
    /\ dropped = NoDrop
    /\ progress = "none"
    /\ stale_read = FALSE

\* A resource of up to MaxLen bytes, a prefetch threshold of at least one byte.
InitSession ==
    /\ len \in 0..MaxLen
    /\ prefetch_bytes \in 1..MaxPrefetch
    /\ InitRun

\* The origin advertises its length, or none.
Init ==
    /\ InitSession
    /\ reported \in {None, Some(len)}
    /\ seek_capacity = SeekChannelCap
    /\ seek_budget = MaxSeeks

\* ------------------------------------------------------ the stream
\* Chunk lengths stream.next() may yield at offset spos: any split of the
\* bytes left, an empty chunk included.
ChunkLens == 0..Min(MaxChunk, len - spos)

\* stream.next() has bytes left to yield.
StreamHasBytes == spos < len

\* ------------------------------------------------- Source::download
\* A panic unwinds the task: self is dropped, and BufWriter's Drop flushes
\* what is buffered.
Panic(cause) ==
    /\ dpc' = "panicked"
    /\ panic_cause' = cause
    /\ SetWriter(BufFlush(TheWriter))
    /\ initial_buffer' = 0
    /\ chunk_len' = 0
    /\ old_position' = 0
    /\ requested' = -1

\* content_length as i64, or -1 for None.
EncodeContentLength(opt) == IF opt.some THEN AsI64(opt.val) ELSE -1

\* let content_length = stream.content_length().await; content_length.swap(..)
GetContentLength ==
    /\ dpc = "start"
    /\ content_length' = EncodeContentLength(reported)
    /\ cl_writes' = cl_writes + 1
    /\ dpc' = "cl_set"
    /\ UNCHANGED <<config_vars, spos, panic_cause, initial_buffer, chunk_len, old_position,
                   requested, file_vars, downloaded, position, requested_position,
                   position_reached, content_length_retrieved, seek_chan, reader_vars,
                   fresh_seeks, stream_seeks, seek_pos, stream_ended, dropped, progress,
                   stale_read>>

\* A content-length signal that notifies without setting the flag.
SignalContentLengthWithoutFlag ==
    /\ dpc = "cl_set"
    /\ rpc' = NotifyContentLength(rpc)
    /\ dpc' = "prefetch"
    /\ UNCHANGED <<config_vars, spos, panic_cause, initial_buffer, chunk_len, old_position,
                   requested, file_vars, downloaded, position, requested_position,
                   position_reached, content_length_retrieved, content_length, seek_chan,
                   cursor, rbuf, rk, delivered, read_from, reof, nseeks, cl_result,
                   history_vars>>

\* *mutex.lock() = true; cvar.notify_all();
SignalContentLength ==
    /\ dpc = "cl_set"
    /\ content_length_retrieved' = TRUE
    /\ rpc' = NotifyContentLength(rpc)
    /\ dpc' = "prefetch"
    /\ UNCHANGED <<config_vars, spos, panic_cause, initial_buffer, chunk_len, old_position,
                   requested, file_vars, downloaded, position, requested_position,
                   position_reached, content_length, seek_chan, cursor, rbuf, rk, delivered,
                   read_from, reof, nseeks, cl_result, history_vars>>

\* A prefetch loop that advances the write head chunk by chunk.
PrefetchChunkAdvancingHead ==
    /\ dpc = "prefetch"
    /\ StreamHasBytes
    /\ \E c \in ChunkLens :
        /\ SetWriter(BufWriteAll(TheWriter, OriginBytes(spos, c)))
        /\ spos' = spos + c
        /\ position' = WrapAdd(position, c)
        /\ initial_buffer' = initial_buffer + c
        /\ dpc' = IF initial_buffer + c >= prefetch_bytes THEN "pf_publish" ELSE "prefetch"
    /\ UNCHANGED <<config_vars, panic_cause, chunk_len, old_position, requested,
                   downloaded, requested_position, position_reached,
                   content_length_retrieved, content_length, seek_chan, reader_vars,
                   history_vars>>

\* Prefetch loop: stream.next() yields a chunk; write it and count it.
PrefetchChunk ==
    /\ dpc = "prefetch"
    /\ StreamHasBytes
    /\ \E c \in ChunkLens :
        /\ SetWriter(BufWriteAll(TheWriter, OriginBytes(spos, c)))
        /\ spos' = spos + c
        /\ initial_buffer' = initial_buffer + c
        /\ dpc' = IF initial_buffer + c >= prefetch_bytes THEN "pf_publish" ELSE "prefetch"
    /\ UNCHANGED <<config_vars, panic_cause, chunk_len, old_position, requested,
                   shared_vars, reader_vars, history_vars>>

\* Prefetch loop: stream.next() yields an error; bytes.unwrap() panics.
PrefetchError ==
    /\ dpc = "prefetch"
    /\ Panic("stream_error")
    /\ UNCHANGED <<config_vars, spos, shared_vars, reader_vars, history_vars>>

\* self.position.fetch_add(initial_buffer) once the threshold is reached.
PrefetchPublishPosition ==
    /\ dpc = "pf_publish"
    /\ position' = WrapAdd(position, initial_buffer)
    /\ dpc' = "pf_insert"
    /\ UNCHANGED <<config_vars, spos, panic_cause, initial_buffer, chunk_len, old_position,
                   requested, file_vars, downloaded, requested_position, position_reached,
                   content_length_retrieved, content_length, seek_chan, reader_vars,
                   history_vars>>

\* self.downloaded.write().insert(0..initial_buffer); break. RangeSet::insert
\* panics on an empty range.
PrefetchPublishRange ==
    /\ dpc = "pf_insert"
    /\ IF initial_buffer = 0
       THEN /\ Panic("empty_range")
            /\ UNCHANGED downloaded
       ELSE /\ downloaded' = RangeInsert(downloaded, 0, initial_buffer)
            /\ dpc' = "steady"
            /\ initial_buffer' = 0
            /\ UNCHANGED <<panic_cause, file_vars, chunk_len, old_position, requested>>
    /\ UNCHANGED <<config_vars, spos, position, requested_position, position_reached,
                   content_length_retrieved, content_length, seek_chan, reader_vars,
                   history_vars>>

\* Prefetch loop: the stream ended below the threshold; self.writer.flush().
PrefetchEnd ==
    /\ dpc = "prefetch"
    /\ ~StreamHasBytes
    /\ SetWriter(BufFlush(TheWriter))
    /\ dpc' = "short_publish"
    /\ stream_ended' = TRUE
    /\ UNCHANGED <<config_vars, spos, panic_cause, initial_buffer, chunk_len, old_position,
                   requested, shared_vars, reader_vars, fresh_seeks, stream_seeks, seek_pos,
                   cl_writes, dropped, progress, stale_read>>

\* self.position.fetch_add(initial_buffer) of a file shorter than the threshold.
ShortPublishPosition ==
    /\ dpc = "short_publish"
    /\ position' = WrapAdd(position, initial_buffer)
    /\ dpc' = "short_insert"
    /\ UNCHANGED <<config_vars, spos, panic_cause, initial_buffer, chunk_len, old_position,
                   requested, file_vars, downloaded, requested_position, position_reached,
                   content_length_retrieved, content_length, seek_chan, reader_vars,
                   history_vars>>

\* self.downloaded.write().insert(0..initial_buffer) of a short file.
ShortPublishRange ==
    /\ dpc = "short_insert"
    /\ IF initial_buffer = 0
       THEN /\ Panic("empty_range")
            /\ UNCHANGED downloaded
       ELSE /\ downloaded' = RangeInsert(downloaded, 0, initial_buffer)
            /\ dpc' = "short_flag"
            /\ initial_buffer' = 0
            /\ UNCHANGED <<panic_cause, file_vars, chunk_len, old_position, requested>>
    /\ UNCHANGED <<config_vars, spos, position, requested_position, position_reached,
                   content_length_retrieved, content_length, seek_chan, reader_vars,
                   history_vars>>

\* *mutex.lock() = true; cvar.notify_all(); return   (end of a short file)
ShortSignalEnd ==
    /\ dpc = "short_flag"
    /\ position_reached' = TRUE
    /\ rpc' = NotifyPositionReached(rpc)
    /\ dpc' = "done"
    /\ UNCHANGED <<config_vars, spos, panic_cause, initial_buffer, chunk_len, old_position,
                   requested, file_vars, downloaded, position, requested_position,
                   content_length_retrieved, content_length, seek_chan, cursor, rbuf, rk,
                   delivered, read_from, reof, nseeks, cl_result, history_vars>>

\* Steady state, chunk arrival: write the chunk.
ChunkArrival ==
    /\ dpc = "steady"
    /\ StreamHasBytes
    /\ \E c \in ChunkLens :
        /\ SetWriter(BufWriteAll(TheWriter, OriginBytes(spos, c)))
        /\ spos' = spos + c
        /\ chunk_len' = c
    /\ dpc' = "chunk_add"
    /\ UNCHANGED <<config_vars, panic_cause, initial_buffer, old_position, requested,
                   shared_vars, reader_vars, history_vars>>

\* Steady state: stream.next() yields an error; bytes.unwrap() panics.
ChunkError ==
    /\ dpc = "steady"
    /\ Panic("stream_error")
    /\ UNCHANGED <<config_vars, spos, shared_vars, reader_vars, history_vars>>

\* A test that is satisfied by any pending request, wherever the head is.
RequestSatisfiedIgnoringHead(req, new_position) == req > -1

\* requested > -1 && new_position as i64 >= requested
RequestSatisfied(req, new_position) == req > -1 /\ AsI64(new_position) >= req

\* An advance that stores the chunk's length in the head instead of adding it.
ChunkAdvanceStoringLength ==
    /\ dpc = "chunk_add"
    /\ old_position' = position
    /\ position' = chunk_len
    /\ seek_pos' = IF chunk_len > 0 THEN -1 ELSE seek_pos
    /\ dpc' = "chunk_insert"
    /\ UNCHANGED <<config_vars, spos, panic_cause, initial_buffer, chunk_len, requested,
                   file_vars, downloaded, requested_position, position_reached,
                   content_length_retrieved, content_length, seek_chan, reader_vars,
                   fresh_seeks, stream_seeks, stream_ended, cl_writes, dropped, progress,
                   stale_read>>

\* let position = self.position.fetch_add(chunk_len)
ChunkAdvance ==
    /\ dpc = "chunk_add"
    /\ old_position' = position
    /\ position' = WrapAdd(position, chunk_len)
    /\ progress' = IF /\ rpc = "waiting"
                      /\ ~RequestSatisfied(requested_position, position)
                      /\ RequestSatisfied(requested_position, position')
                   THEN "reached" ELSE progress
    /\ seek_pos' = IF chunk_len > 0 THEN -1 ELSE seek_pos
    /\ dpc' = "chunk_insert"
    /\ UNCHANGED <<config_vars, spos, panic_cause, initial_buffer, chunk_len, requested,
                   file_vars, downloaded, requested_position, position_reached,
                   content_length_retrieved, content_length, seek_chan, reader_vars,
                   fresh_seeks, stream_seeks, stream_ended, cl_writes, dropped,
                   stale_read>>

\* An insert that records the interval after the new head instead of the one
\* before it.
ChunkInsertAfterHead ==
    /\ dpc = "chunk_insert"
    /\ IF chunk_len = 0
       THEN /\ Panic("empty_range")
            /\ UNCHANGED downloaded
       ELSE /\ downloaded' = RangeInsert(downloaded, position, position + chunk_len)
            /\ dpc' = "chunk_load"
            /\ UNCHANGED <<panic_cause, file_vars, initial_buffer, chunk_len, old_position,
                           requested>>
    /\ UNCHANGED <<config_vars, spos, position, requested_position, position_reached,
                   content_length_retrieved, content_length, seek_chan, reader_vars,
                   history_vars>>

\* self.downloaded.write().insert(position..new_position)
ChunkInsert ==
    /\ dpc = "chunk_insert"
    /\ IF chunk_len = 0
       THEN /\ Panic("empty_range")
            /\ UNCHANGED downloaded
       ELSE /\ downloaded' = RangeInsert(downloaded, old_position, old_position + chunk_len)
            /\ dpc' = "chunk_load"
            /\ UNCHANGED <<panic_cause, file_vars, initial_buffer, chunk_len, old_position,
                           requested>>
    /\ UNCHANGED <<config_vars, spos, position, requested_position, position_reached,
                   content_length_retrieved, content_length, seek_chan, reader_vars,
                   history_vars>>

\* The chunk's locals go out of scope at the end of the select arm.
EndOfChunk ==
    /\ chunk_len' = 0
    /\ old_position' = 0
    /\ requested' = -1

\* let requested = self.requested_position.load(), and the test on it.
ChunkLoadRequested ==
    /\ dpc = "chunk_load"
    /\ IF RequestSatisfied(requested_position, old_position + chunk_len)
       THEN /\ requested' = requested_position
            /\ dpc' = "chunk_notify"
            /\ UNCHANGED <<chunk_len, old_position>>
       ELSE /\ dpc' = "steady"
            /\ EndOfChunk
    /\ UNCHANGED <<config_vars, spos, panic_cause, initial_buffer, file_vars, shared_vars,
                   reader_vars, history_vars>>

\* self.requested_position.store(-1); cvar.notify_all()  (the flag is not set)
ChunkNotify ==
    /\ dpc = "chunk_notify"
    /\ requested_position' = -1
    /\ rpc' = NotifyPositionReached(rpc)
    /\ progress' = IF progress = "reached" THEN "notified" ELSE progress
    /\ dpc' = "steady"
    /\ EndOfChunk
    /\ UNCHANGED <<config_vars, spos, panic_cause, initial_buffer, file_vars, downloaded,
                   position, position_reached,
                   content_length_retrieved, content_length, seek_chan, cursor, rbuf, rk,
                   delivered, read_from, reof, nseeks, cl_result, fresh_seeks, stream_seeks,
                   seek_pos, stream_ended, cl_writes, dropped, stale_read>>

\* Steady state: stream.next() yields None; self.writer.flush().
StreamEnd ==
    /\ dpc = "steady"
    /\ ~StreamHasBytes
    /\ SetWriter(BufFlush(TheWriter))
    /\ dpc' = "end_flag"
    /\ stream_ended' = TRUE
    /\ UNCHANGED <<config_vars, spos, panic_cause, initial_buffer, chunk_len, old_position,
                   requested, shared_vars, reader_vars, fresh_seeks, stream_seeks, seek_pos,
                   cl_writes, dropped, progress, stale_read>>

\* An end-of-stream signal after which the task goes on with its loop instead
\* of returning.
SignalEndWithoutReturn ==
    /\ dpc = "end_flag"
    /\ position_reached' = TRUE
    /\ rpc' = NotifyPositionReached(rpc)
    /\ dpc' = "steady"
    /\ UNCHANGED <<config_vars, spos, panic_cause, initial_buffer, chunk_len, old_position,
                   requested, file_vars, downloaded, position, requested_position,
                   content_length_retrieved, content_length, seek_chan, cursor, rbuf, rk,
                   delivered, read_from, reof, nseeks, cl_result, history_vars>>

\* *mutex.lock() = true; cvar.notify_all(); return   (end of the stream)
SignalEnd ==
    /\ dpc = "end_flag"
    /\ position_reached' = TRUE
    /\ rpc' = NotifyPositionReached(rpc)
    /\ dpc' = "done"
    /\ UNCHANGED <<config_vars, spos, panic_cause, initial_buffer, chunk_len, old_position,
                   requested, file_vars, downloaded, position, requested_position,
                   content_length_retrieved, content_length, seek_chan, cursor, rbuf, rk,
                   delivered, read_from, reof, nseeks, cl_result, history_vars>>

\* do_seek: seek unless pos lies in a downloaded range that contains the head.
DoSeek(S, head, pos) ==
    LET range == RangeGet(S, pos)
    IN  IF range.some THEN ~RangeContains(range, head) ELSE TRUE

\* A seek handler that forgets the downloaded ranges when it restarts the
\* stream.
SeekRequestClearingRanges ==
    /\ dpc = "steady"
    /\ seek_chan # <<>>
    /\ LET msg == Head(seek_chan)
       IN  /\ seek_chan' = Tail(seek_chan)
           /\ IF DoSeek(downloaded, position, msg.pos)
              THEN /\ spos' = msg.pos
                   /\ SetWriter(BufSeek(TheWriter, msg.pos))
                   /\ position' = msg.pos
                   /\ downloaded' = {}
                   /\ stream_seeks' = Append(stream_seeks, msg.id)
                   /\ seek_pos' = msg.pos
              ELSE UNCHANGED <<spos, file_vars, position, downloaded, stream_seeks, seek_pos>>
    /\ UNCHANGED <<config_vars, downloader_vars, requested_position,
                   position_reached, content_length_retrieved, content_length,
                   reader_vars, fresh_seeks, stream_ended, cl_writes, dropped, progress,
                   stale_read>>

\* A seek handler that is also polled by the prefetch loop.
SeekRequestDuringPrefetch ==
    /\ dpc \in {"prefetch", "steady"}
    /\ seek_chan # <<>>
    /\ LET msg == Head(seek_chan)
       IN  /\ seek_chan' = Tail(seek_chan)
           /\ IF DoSeek(downloaded, position, msg.pos)
              THEN /\ spos' = msg.pos
                   /\ SetWriter(BufSeek(TheWriter, msg.pos))
                   /\ position' = msg.pos
                   /\ stream_seeks' = Append(stream_seeks, msg.id)
                   /\ seek_pos' = msg.pos
              ELSE UNCHANGED <<spos, file_vars, position, stream_seeks, seek_pos>>
    /\ UNCHANGED <<config_vars, downloader_vars, downloaded, requested_position,
                   position_reached, content_length_retrieved, content_length,
                   reader_vars, fresh_seeks, stream_ended, cl_writes, dropped, progress,
                   stale_read>>

\* Steady state, seek request: pos = self.seek_rx.recv(); when do_seek,
\* stream.seek(pos), self.writer.seek(Start(pos)), self.position.store(pos).
SeekRequest ==
    /\ dpc = "steady"
    /\ seek_chan # <<>>
    /\ LET msg == Head(seek_chan)
       IN  /\ seek_chan' = Tail(seek_chan)
           /\ IF DoSeek(downloaded, position, msg.pos)
              THEN /\ spos' = msg.pos
                   /\ SetWriter(BufSeek(TheWriter, msg.pos))
                   /\ position' = msg.pos
                   /\ stream_seeks' = Append(stream_seeks, msg.id)
                   /\ seek_pos' = msg.pos
              ELSE UNCHANGED <<spos, file_vars, position, stream_seeks, seek_pos>>
    /\ UNCHANGED <<config_vars, downloader_vars, downloaded, requested_position,
                   position_reached, content_length_retrieved, content_length,
                   reader_vars, fresh_seeks, stream_ended, cl_writes, dropped, progress,
                   stale_read>>

\* ------------------------------------------------------ SourceHandle
\* SourceHandle::request_position: requested_position.store(position as i64)
RequestPosition(pos) == requested_position' = AsI64(pos)

\* A send that makes room in a full channel by discarding the oldest offset.
TrySendEvictingOldest(chan, msg) ==
    IF Terminated THEN chan
    ELSE IF Len(chan) >= seek_capacity THEN Append(Tail(chan), msg)
    ELSE Append(chan, msg)

\* SourceHandle::seek: seek_tx.try_send(position).ok(). The send fails, and is
\* ignored, when the channel is full or its receiver is gone.
TrySend(chan, msg) ==
    IF Terminated \/ Len(chan) >= seek_capacity THEN chan ELSE Append(chan, msg)

\* SourceHandle::content_length, the value returned once the flag is seen.
DecodeContentLength(length) == IF length > -1 THEN Some(AsU64(length)) ELSE None

\* ------------------------------------------------------- the reader
\* Offsets the consumer seeks to: inside the resource, at its end and, for
\* all but the longest resource, past its end.
SeekOffsets == 0..MaxLen

\* The largest k <= n with [p, p + k) recorded in the range set.
Contiguous(S, p, n) ==
    CHOOSE k \in 0..n :
        /\ \A i \in 0..(k - 1) : (p + i) \in S
        /\ (k = n \/ (p + k) \notin S)

\* A read of up to k bytes at offset p through the reader's own view of the
\* file: short at the end of the file, zeros in a hole.
FileRead(f, p, k) ==
    LET m == IF FileLen(f) > p THEN Min(k, FileLen(f) - p) ELSE 0
    IN  [i \in 1..m |-> f[p + i - 1]]

\* The offset lies in the downloaded interval the downloader is extending.
UnderDownload(S, head, off) ==
    LET range == RangeGet(S, off)
    IN  range.some /\ range.end = head

\* read(buf), first step: the contiguous count at the cursor; none: post it.
ReadStart ==
    /\ rpc = "idle"
    /\ \E n \in 1..MaxBuf :
        LET k == Contiguous(downloaded, cursor, n)
        IN  /\ rbuf' = n
            /\ rk' = k
            /\ rpc' = IF k = 0 THEN "post" ELSE "file_read"
    /\ UNCHANGED <<config_vars, spos, downloader_vars, file_vars, shared_vars, cursor,
                   delivered, read_from, reof, nseeks, cl_result, history_vars>>

\* read(buf): handle.request_position(p)
ReadPost ==
    /\ rpc = "post"
    /\ RequestPosition(cursor)
    /\ progress' = IF position_reached THEN "late" ELSE "none"
    /\ rpc' = "lock"
    /\ UNCHANGED <<config_vars, spos, downloader_vars, file_vars, downloaded, position,
                   position_reached, content_length_retrieved, content_length, seek_chan,
                   cursor, rbuf, rk, delivered, read_from, reof, nseeks, cl_result, fresh_seeks,
                   stream_seeks, seek_pos, stream_ended, cl_writes, dropped, stale_read>>

\* wait_for_requested_position: lock; return when done, else park on the condvar.
WaitEnter ==
    /\ rpc = "lock"
    /\ rpc' = IF position_reached THEN "recompute" ELSE "waiting"
    /\ dropped' = IF ~position_reached /\ ~stream_ended /\ dropped.pos = cursor
                  THEN [dropped EXCEPT !.parked = TRUE] ELSE dropped
    /\ UNCHANGED <<config_vars, spos, downloader_vars, file_vars, shared_vars, cursor, rbuf, rk,
                   delivered, read_from, reof, nseeks, cl_result, fresh_seeks, stream_seeks,
                   seek_pos, stream_ended, cl_writes, progress, stale_read>>

\* A wait that returns on any notification, as Condvar::wait would without
\* wait_while's predicate.
WaitRecheckWithoutPredicate ==
    /\ rpc = "woken"
    /\ rpc' = "recompute"
    /\ UNCHANGED <<config_vars, spos, downloader_vars, file_vars, shared_vars, cursor, rbuf, rk,
                   delivered, read_from, reof, nseeks, cl_result, history_vars>>

\* wait_while(&mut done, |done| !*done): a notified reader returns only when
\* the flag is set, and parks again otherwise.
WaitRecheck ==
    /\ rpc = "woken"
    /\ rpc' = IF position_reached THEN "recompute" ELSE "waiting"
    /\ UNCHANGED <<config_vars, spos, downloader_vars, file_vars, shared_vars, cursor, rbuf, rk,
                   delivered, read_from, reof, nseeks, cl_result, history_vars>>

\* read(buf): the wait returned; recompute k.
ReadRecompute ==
    /\ rpc = "recompute"
    /\ rk' = Contiguous(downloaded, cursor, rbuf)
    /\ rpc' = "file_read"
    /\ progress' = "none"
    /\ UNCHANGED <<config_vars, spos, downloader_vars, file_vars, shared_vars, cursor,
                   rbuf, delivered, read_from, reof, nseeks, cl_result, fresh_seeks,
                   stream_seeks, seek_pos, stream_ended, cl_writes, dropped, stale_read>>

\* read(buf): read k bytes from the backing file, advance the cursor, return.
ReadFile ==
    /\ rpc = "file_read"
    /\ LET got == FileRead(file, cursor, rk)
       IN  /\ delivered' = delivered \o got
           /\ cursor' = cursor + Len(got)
           /\ reof' = (Len(got) = 0)
           /\ stale_read' = (stale_read \/ Len(got) < rk)
    /\ dropped' = NoDrop
    /\ rbuf' = 0
    /\ rk' = 0
    /\ rpc' = "idle"
    /\ UNCHANGED <<config_vars, spos, downloader_vars, file_vars, shared_vars, read_from,
                   nseeks, cl_result, fresh_seeks, stream_seeks, seek_pos, stream_ended,
                   cl_writes, progress>>

\* seek(offset): move the cursor; outside the range under download, send the
\* offset on the seek channel.
ReaderSeek ==
    /\ rpc = "idle"
    /\ nseeks < seek_budget
    /\ \E off \in SeekOffsets :
        LET send == ~UnderDownload(downloaded, position, off)
            msg  == [pos |-> off, id |-> nseeks + 1]
            chan == IF send THEN TrySend(seek_chan, msg) ELSE seek_chan
        IN  /\ cursor' = off
            /\ read_from' = off
            /\ seek_chan' = chan
            /\ fresh_seeks' = IF off \notin downloaded /\ off < len
                               THEN fresh_seeks \cup {nseeks + 1} ELSE fresh_seeks
            /\ dropped' = IF send /\ ~Terminated /\ Len(seek_chan) >= seek_capacity
                          THEN [pos |-> off, parked |-> FALSE] ELSE NoDrop
    /\ delivered' = <<>>
    /\ reof' = FALSE
    /\ stale_read' = FALSE
    /\ nseeks' = nseeks + 1
    /\ UNCHANGED <<config_vars, spos, downloader_vars, file_vars, downloaded, position,
                   requested_position, position_reached, content_length_retrieved,
                   content_length, rpc, rbuf, rk, cl_result, stream_seeks, seek_pos,
                   stream_ended, cl_writes, progress>>

\* SourceHandle::content_length: lock; when the flag is set, load the length,
\* else park on the condvar.
ContentLengthCall ==
    /\ rpc = "idle"
    /\ IF content_length_retrieved
       THEN /\ cl_result' = DecodeContentLength(content_length)
            /\ rpc' = "cl_return"
       ELSE /\ rpc' = "cl_waiting"
            /\ UNCHANGED cl_result
    /\ UNCHANGED <<config_vars, spos, downloader_vars, file_vars, shared_vars, cursor, rbuf, rk,
                   delivered, read_from, reof, nseeks, history_vars>>

\* SourceHandle::content_length: woken, the predicate is evaluated again.
ContentLengthRecheck ==
    /\ rpc = "cl_woken"
    /\ IF content_length_retrieved
       THEN /\ cl_result' = DecodeContentLength(content_length)
            /\ rpc' = "cl_return"
       ELSE /\ rpc' = "cl_waiting"
            /\ UNCHANGED cl_result
    /\ UNCHANGED <<config_vars, spos, downloader_vars, file_vars, shared_vars, cursor, rbuf, rk,
                   delivered, read_from, reof, nseeks, history_vars>>

\* SourceHandle::content_length returns Some(length) or None to its caller.
ContentLengthReturn ==
    /\ rpc = "cl_return"
    /\ cl_result' = None
    /\ rpc' = "idle"
    /\ UNCHANGED <<config_vars, spos, downloader_vars, file_vars, shared_vars, cursor, rbuf, rk,
                   delivered, read_from, reof, nseeks, history_vars>>

\* ------------------------------------------------------ specification
Downloader ==
    \/ GetContentLength
    \/ SignalContentLength
    \/ PrefetchChunk
    \/ PrefetchError
    \/ PrefetchPublishPosition
    \/ PrefetchPublishRange
    \/ PrefetchEnd
    \/ ShortPublishPosition
    \/ ShortPublishRange
    \/ ShortSignalEnd
    \/ ChunkArrival
    \/ ChunkError
    \/ ChunkAdvance
    \/ ChunkInsert
    \/ ChunkLoadRequested
    \/ ChunkNotify
    \/ StreamEnd
    \/ SignalEnd
    \/ SeekRequest

Reader ==
    \/ ReadStart
    \/ ReadPost
    \/ WaitEnter
    \/ WaitRecheck
    \/ ReadRecompute
    \/ ReadFile
    \/ ReaderSeek
    \/ ContentLengthCall
    \/ ContentLengthRecheck
    \/ ContentLengthReturn

Next == Downloader \/ Reader

Spec == Init /\ [][Next]_vars

\* The same session with an origin that may advertise a length that does not
\* fit an i64: the smallest such length, and the largest u64.
InitCL ==
    /\ InitSession
    /\ reported \in {None, Some(len), Some(TwoTo(IntBits - 1)), Some(TwoTo(IntBits) - 1)}
    /\ seek_capacity = SeekChannelCap
    /\ seek_budget = MaxSeeks

SpecCL == InitCL /\ [][Next]_vars

\* The same session with a consumer that seeks once more and a seek channel
\* that holds one more offset, so that several offsets queue up before the
\* channel is full.
InitSeeks ==
    /\ InitSession
    /\ reported = None
    /\ seek_capacity = SeekChannelCap + 1
    /\ seek_budget = MaxSeeks + 1

SpecSeeks == InitSeeks /\ [][Next]_vars

\* A session on a resource of up to LongLen bytes, long enough for a seek that
\* leaves a gap of one byte in front of the new head and a chunk behind it.
InitLong ==
    /\ len \in 0..LongLen
    /\ prefetch_bytes \in 1..MaxPrefetch
    /\ InitRun
    /\ reported = None
    /\ seek_capacity = SeekChannelCap
    /\ seek_budget = MaxSeeks

SpecLong == InitLong /\ [][Next]_vars

\* ------------------------------------------------------------- claims
\* The stream.seek calls made for request id.
TimesServed(id) == Cardinality({i \in 1..Len(stream_seeks) : stream_seeks[i] = id})

\* This step of the downloader called stream.seek.
StreamSeekStep == Len(stream_seeks') > Len(stream_seeks)

\* C1: a reader that posted r and is blocked in wait_for_requested_position
\* is released by the chunk arrival that brings the write head to r or past
\* it: once that arrival has cleared the request and notified, the reader is
\* not left parked on the condvar.
C1_ProgressReleasesReader == progress = "notified" => rpc # "waiting"

\* C2: every offset of the range set has been written to the backing file as
\* the reader's view sees it, with the origin's byte.
C2_RangeSetBytesInFile ==
    \A p \in downloaded : p < FileLen(file) /\ file[p] = OriginByte(p)

\* C3: a reader that starts at 0 and reads to EOF without seeking has received
\* exactly the bytes of B, in order.
C3_FullReadDeliversOrigin ==
    (nseeks = 0 /\ reof) => delivered = OriginBytes(0, len)

\* C4: after a seek to an offset s within B, a read to EOF delivers exactly
\* B[s..], whatever was read and sought before. Stated for the reads that
\* found in the file every byte the range set promised.
C4_SeekThenReadDeliversSuffix ==
    (nseeks > 0 /\ reof /\ read_from <= len /\ ~stale_read)
        => delivered = OriginBytes(read_from, len - read_from)

\* C5: a seek request whose offset lies inside an already-downloaded range
\* causes no stream seek.
C5_NoStreamSeekInsideDownloaded ==
    [][StreamSeekStep => Head(seek_chan).pos \notin downloaded]_vars

\* C6: every seek the reader issues to an offset in no downloaded range gets
\* exactly one stream seek: never more than one, and one by the time the
\* downloader has returned.
C6_FreshSeekServedExactlyOnce ==
    \A id \in fresh_seeks :
        /\ TimesServed(id) <= 1
        /\ (dpc = "done" => TimesServed(id) = 1)

\* C7: a seek to an offset at or beyond the known content length causes no
\* stream seek.
C7_NoStreamSeekPastContentLength ==
    [][StreamSeekStep => ~(reported.some /\ Head(seek_chan).pos >= reported.val)]_vars

\* C8: when the write head shows the value of a chunk advance (or of the
\* prefetch publication), the interval it advanced over is in the range set.
C8_RangeInsertedBeforeHead ==
    /\ (dpc = "chunk_insert" => \A p \in old_position..(position - 1) : p \in downloaded)
    /\ (dpc \in {"pf_insert", "short_insert"} => \A p \in 0..(position - 1) : p \in downloaded)

\* C9: content_length() returns only after the downloader published the
\* length, and returns what the stream reported.
C9_ContentLengthAsReported ==
    rpc = "cl_return" => (content_length_retrieved /\ cl_result = reported)

\* C10: a stream error ends the session as a premature stream end: the
\* position-reached flag is set.
C10_StreamErrorSetsFlag ==
    (dpc = "panicked" /\ panic_cause = "stream_error") => position_reached

\* C11: once the stream has ended (stream.next() returned None, in prefetch
\* or in steady state) and the downloader task is over, the task has returned
\* normally with the writer flushed and the position-reached flag set.
C11_StreamEndSetsFlagAndExits ==
    (stream_ended /\ Terminated)
        => (dpc = "done" /\ position_reached /\ writer.buf = <<>>)

\* C12: when wait_for_requested_position has returned to a reader that posted
\* its cursor r as the requested position, the write head is at or past r or
\* the downloader has returned.
C12_WaitReturnsAtHeadOrEnd ==
    rpc = "recompute" => (position >= cursor \/ dpc = "done")

\* C12, its case: the wait has returned with the head still short of r.
C12_WaitReturnedShortOfRequest ==
    rpc = "recompute" /\ position < cursor /\ requested_position = cursor

\* This step is a seek() of the reader.
ReaderSeekStep == nseeks' = nseeks + 1

\* C13: the seek channel never holds more offsets than its capacity; a seek
\* of the reader completes in one step whatever the channel holds, and when
\* the channel is full it leaves the queue as it is; the queue changes only by
\* a send appending at its end or by the downloader taking its head, so the
\* offsets are received in the order they were sent.
C13_SeekChannelBoundedFifo ==
    /\ [](/\ Len(seek_chan) <= seek_capacity
          /\ \A i \in 1..Len(seek_chan) : \A j \in 1..Len(seek_chan) :
                i < j => seek_chan[i].id < seek_chan[j].id)
    /\ [][/\ (ReaderSeekStep /\ Len(seek_chan) >= seek_capacity) => seek_chan' = seek_chan
          /\ (ReaderSeekStep /\ seek_chan' # seek_chan)
                => seek_chan' = Append(seek_chan, [pos |-> cursor', id |-> nseeks'])
          /\ (~ReaderSeekStep /\ seek_chan' # seek_chan)
                => (seek_chan # <<>> /\ seek_chan' = Tail(seek_chan))]_vars

\* C13, its case: a send was dropped on a channel holding several offsets.
C13_SendDroppedOnFullChannel ==
    dropped.pos # -1 /\ Len(seek_chan) = seek_capacity /\ Len(seek_chan) > 1

\* C14: a reader whose seek to an offset p of the resource was dropped on a
\* full channel, and who then posted p as the requested position and waited,
\* finds p in the range set when its wait returns.
C14_DroppedSeekRecoveredByRequest ==
    (dropped.parked /\ rpc = "recompute" /\ cursor = dropped.pos /\ cursor < len)
        => cursor \in downloaded

\* C15: until the prefetch publication the write head is 0 and the range set
\* is empty; the head's first change takes it from 0 to n, the number of bytes
\* pulled from the stream so far, and the range set's first change takes it
\* from empty to exactly [0, n), with the head at n.
C15_PrefetchPublishesOnce ==
    /\ [](dpc \in {"start", "cl_set", "prefetch", "pf_publish", "short_publish"}
            => (position = 0 /\ downloaded = {}))
    /\ [][/\ (downloaded = {} /\ position = 0 /\ position' # 0) => position' = spos
          /\ (downloaded = {} /\ downloaded' # {})
                => (position' = spos /\ downloaded' = 0..(spos - 1))]_vars

\* C15, its case: a prefetch of several bytes has been published.
C15_PrefetchPublished ==
    /\ dpc = "steady"
    /\ stream_seeks = <<>>
    /\ prefetch_bytes > 1
    /\ position = prefetch_bytes
    /\ downloaded = 0..(position - 1)

\* The upper bounds of the range set's intervals.
RangeEnds(S) == {iv[2] : iv \in Intervals(S)}

\* The downloader stands between advancing the head and inserting the range.
InsertPending == dpc \in {"pf_insert", "short_insert", "chunk_insert"}

SeekHandledStep == Len(seek_chan') < Len(seek_chan)

\* C17: handling a seek request for pos leaves the range set and the
\* requested position as they are; when the stream is sought, the stream, the
\* file's write cursor and the write head are at pos afterwards; when it is
\* not, the stream, the writer and the write head are unchanged.
C17_SeekHandlingFrame ==
    [][SeekHandledStep =>
        /\ downloaded' = downloaded
        /\ requested_position' = requested_position
        /\ IF StreamSeekStep
           THEN /\ spos' = Head(seek_chan).pos
                /\ writer' = [buf |-> <<>>, cur |-> Head(seek_chan).pos]
                /\ position' = Head(seek_chan).pos
           ELSE /\ spos' = spos
                /\ writer' = writer
                /\ position' = position]_vars

\* C17, its case: a seek has been serviced with ranges downloaded before it
\* and a request posted.
C17_SeekServicedWithRanges ==
    /\ stream_seeks # <<>>
    /\ position = seek_pos
    /\ downloaded # {}
    /\ requested_position > -1

\* C18: the content-length atomic is written at most once, exactly once by
\* the time its flag is set, and never again; every step that pulls bytes
\* from the stream or writes to the writer or the backing file comes after
\* that write and after the flag was set.
C18_ContentLengthOnceBeforeChunks ==
    /\ [](cl_writes <= 1 /\ (content_length_retrieved => cl_writes = 1))
    /\ [][/\ (cl_writes' # cl_writes \/ content_length' # content_length)
                => (cl_writes = 0 /\ ~content_length_retrieved)
          /\ (spos' # spos \/ writer' # writer \/ file' # file \/ stream_ended' # stream_ended)
                => (cl_writes = 1 /\ content_length_retrieved)]_vars

\* C18, its case: the first chunk has been pulled and written.
C18_FirstChunkPulled ==
    spos > 0 /\ stream_seeks = <<>> /\ cl_writes = 1 /\ content_length_retrieved

\* The offset at which the writer places the next byte it is given.
WriterOffset == writer.cur + Len(writer.buf)

\* C19: in steady state a chunk is written at the file offset equal to the
\* write head before the advance (the writer stands at the head, and what it
\* buffers are the origin's bytes for the offsets they go to); the advance
\* adds the chunk's length to the head and the insert records [old, old+len);
\* the head changes only by such an advance (or the prefetch publication),
\* which never decreases it, or by a serviced seek.
C19_ChunkWrittenAtHead ==
    /\ [](/\ dpc = "steady" => (WriterOffset = position /\ spos = position)
          /\ dpc = "chunk_add" => WriterOffset = position + chunk_len
          /\ writer.buf = OriginBytes(writer.cur, Len(writer.buf)))
    /\ [][/\ (dpc = "chunk_add" /\ dpc' = "chunk_insert")
                => (position' = position + chunk_len /\ old_position' = position)
          /\ (dpc = "chunk_insert" /\ dpc' = "chunk_load")
                => /\ position = old_position + chunk_len
                   /\ downloaded' = downloaded \cup (old_position..(position - 1))
          /\ position' # position
                => \/ StreamSeekStep
                   \/ (dpc = "chunk_add" /\ position' > position)
                   \/ (dpc \in {"pf_publish", "short_publish"} /\ position' > position)]_vars

\* C19, its case: a chunk has been written, advanced over and inserted after
\* a serviced seek.
C19_ChunkInsertedAfterSeek ==
    /\ dpc = "chunk_load"
    /\ stream_seeks # <<>>
    /\ chunk_len > 0
    /\ position = old_position + chunk_len

\* The downloader has not completed the prefetch publication.
BeforePublication == dpc \in {"start", "cl_set", "prefetch", "pf_publish", "pf_insert"}

\* C20: before the prefetch publication no stream seek is made and the seek
\* channel only grows at its end; an offset is taken from the channel only
\* once [0, n) is in the range set, always from the head of the queue, and
\* the stream seeks are made in the order their requests were sent.
C20_NoSeekBeforePrefetchPublication ==
    /\ [](/\ BeforePublication => stream_seeks = <<>>
          /\ \A i \in 1..Len(stream_seeks) : \A j \in 1..Len(stream_seeks) :
                i < j => stream_seeks[i] < stream_seeks[j])
    /\ [][/\ (BeforePublication /\ seek_chan' # seek_chan)
                => seek_chan' = Append(seek_chan, [pos |-> cursor', id |-> nseeks'])
          /\ SeekHandledStep
                => (0 \in downloaded /\ seek_chan' = Tail(seek_chan))
          /\ StreamSeekStep
                => (SeekHandledStep
                    /\ stream_seeks' = Append(stream_seeks, Head(seek_chan).id))]_vars

\* C20, its case: two seek requests are queued while the prefetch is under
\* way.
C20_SeeksQueuedDuringPrefetch ==
    dpc = "prefetch" /\ initial_buffer > 0 /\ Len(seek_chan) = 2

C22_InsertedIntervalNonEmpty ==
    /\ (dpc \in {"pf_insert", "short_insert"} => 0 < initial_buffer)
    /\ (dpc = "chunk_insert" => old_position < old_position + chunk_len)

\* C23, as stated: whenever the downloader clears a pending requested position
\* r > 0, offset r - 1 is in the range set, also after serviced seeks.
C23_ClearedRequestFollowsDownloadedByte ==
    (dpc = "chunk_notify" /\ requested > 0) => (requested - 1) \in downloaded

\* C23, amended: whenever the downloader clears a pending requested position
\* r > 0, the head is at or past r and is the end of the chunk just inserted,
\* whose bytes are all in the range set; offset r - 1 is in the range set when
\* that chunk began below r or no stream seek has been made.
C23_ClearedRequestAtOrBehindHead ==
    (dpc = "chunk_notify" /\ requested > 0) =>
        /\ position >= requested
        /\ position = old_position + chunk_len
        /\ \A p \in old_position..(position - 1) : p \in downloaded
        /\ (old_position < requested \/ stream_seeks = <<>>) => (requested - 1) \in downloaded

\* C23, its case: a request r > 0 is about to be cleared by a chunk that began
\* at r after a serviced seek, with offset r - 1 not downloaded.
C23_ClearedBehindGap ==
    /\ dpc = "chunk_notify"
    /\ requested > 0
    /\ stream_seeks # <<>>
    /\ old_position = requested
    /\ (requested - 1) \notin downloaded

====
